---- MODULE Spec2Model ----
(***************************************************************************)
(* A model of package properties (src/properties.go): Load, decodeString   *)
(* and lineReader.readLine.  Bytes are integers 0..255, Go strings and     *)
(* byte slices are sequences of bytes (Go index i is TLA+ index i+1).      *)
(***************************************************************************)
EXTENDS Integers, Sequences, FiniteSets, TLC

VARIABLES
    src,        \* the bytes the io.Reader will deliver
    srcErrAt,   \* position at which the io.Reader fails with a non-EOF error, -1: never
    srcPos,     \* bytes the io.Reader has delivered so far
    lr,         \* the lineReader: buffer, lineBuffer, limit, offset, exhausted
    rl,         \* the locals of the running readLine call
    pc,         \* "load" | "readLine" | "returned" | "decodeString" | "done" | "panic"
    s,          \* the line the last readLine call returned
    e,          \* the error the last readLine call returned
    props,      \* Load's map under construction
    dec,        \* the running decodeString call, and what Load keeps for it
    result,     \* what Load returned: [props, err]
    lines,      \* history: the lines readLine returned with a nil error
    origin,     \* history: where in src each byte of lineBuffer[0:nextCharIndex] stood
    linesFrom,  \* history: for each line of lines, where in src its bytes stood
    inserted,   \* history: the <<key, value>> pairs Load assigned, in order
    other       \* the state of a second call, not running now; NoCall: there is none

vars == <<src, srcErrAt, srcPos, lr, rl, pc, s, e, dec, props, result, lines, origin,
          linesFrom, inserted, other>>

(***************************************************************************)
(* Characters                                                              *)
(***************************************************************************)
chTab == 9
chLF == 10
chFF == 12
chCR == 13
chSpace == 32
chBang == 33
chHash == 35
chZero == 48
chNine == 57
chColon == 58
chEquals == 61
chUpperA == 65
chUpperF == 70
chBackslash == 92
chLowerA == 97
chLowerF == 102
chLowerN == 110
chLowerR == 114
chLowerT == 116
chLowerU == 117

\* Errors
nil == "nil"
EOF == "io.EOF"
ErrUnexpectedEOF == "io.ErrUnexpectedEOF"
ErrMalformedUtf8Encoding == "malformed \\uxxxx encoding"
ErrIO == "read error"
\* a run-time panic of the Go program (index out of range, makeslice)
Panic == "panic"

\* in[lo:hi] of Go
Slice(seq, lo, hi) == SubSeq(seq, lo + 1, hi)

Min(a, b) == IF a < b THEN a ELSE b

(***************************************************************************)
(* unicode/utf8                                                            *)
(***************************************************************************)
RuneLen(r) ==
    IF r < 0 THEN -1
    ELSE IF r < 128 THEN 1
    ELSE IF r < 2048 THEN 2
    ELSE IF r >= 55296 /\ r <= 57343 THEN -1
    ELSE IF r <= 65535 THEN 3
    ELSE IF r <= 1114111 THEN 4
    ELSE -1

EncodeRune(r) ==
    IF r < 128 THEN <<r>>
    ELSE IF r < 2048 THEN <<192 + (r \div 64), 128 + (r % 64)>>
    ELSE IF r >= 55296 /\ r <= 57343 THEN <<239, 191, 189>>
    ELSE <<224 + (r \div 4096), 128 + ((r \div 64) % 64), 128 + (r % 64)>>

(***************************************************************************)
(* decodeString                                                            *)
(***************************************************************************)
\* the value of a hexadecimal digit, -1 for any other byte (the switch of
\* lines 144-156)
HexValue(c) ==
    IF c >= chZero /\ c <= chNine THEN c - chZero
    ELSE IF c >= chLowerA /\ c <= chLowerF THEN 10 + c - chLowerA
    ELSE IF c >= chUpperA /\ c <= chUpperF THEN 10 + c - chUpperA
    ELSE -1

\* the loop of lines 143-158 from digit j on; i is the Go index of the
\* next byte.  Yields [rune, i, err].
RECURSIVE HexLoop(_, _, _, _)
HexLoop(in, i, j, rune) ==
    IF j >= 4 THEN [rune |-> rune, i |-> i, err |-> nil]
    ELSE IF i >= Len(in) THEN [rune |-> rune, i |-> i, err |-> Panic]
    ELSE IF HexValue(in[i + 1]) < 0
         THEN [rune |-> rune, i |-> i, err |-> ErrMalformedUtf8Encoding]
    ELSE HexLoop(in, i + 1, j + 1, rune * 16 + HexValue(in[i + 1]))

\* the byte a one-letter escape stands for (lines 166-190)
EscapeChar(c) ==
    IF c = chLowerT THEN chTab
    ELSE IF c = chLowerR THEN chCR
    ELSE IF c = chLowerN THEN chLF
    ELSE IF c = chLowerF THEN chFF
    ELSE c

\* one iteration of the loop of lines 136-195 at Go index i < len(in), out
\* holding out[0:o]; yields [i, out, err]
DecodeIteration(in, i, out) ==
    IF in[i + 1] = chBackslash THEN
        IF i + 1 >= Len(in) THEN [i |-> i + 1, out |-> out, err |-> Panic]
        ELSE IF in[i + 2] = chLowerU THEN
            LET h == HexLoop(in, i + 2, 0, 0) IN
            IF h.err # nil THEN [i |-> h.i, out |-> out, err |-> h.err]
            ELSE IF RuneLen(h.rune) < 0 \/ Len(out) + RuneLen(h.rune) > Len(in)
            THEN [i |-> h.i, out |-> out, err |-> Panic]
            ELSE [i |-> h.i, out |-> out \o EncodeRune(h.rune), err |-> nil]
        ELSE [i |-> i + 2, out |-> Append(out, EscapeChar(in[i + 2])), err |-> nil]
    ELSE [i |-> i + 1, out |-> Append(out, in[i + 1]), err |-> nil]

\* the loop of lines 136-195 from Go index i on
RECURSIVE DecodeLoop(_, _, _)
DecodeLoop(in, i, out) ==
    IF i >= Len(in) THEN [out |-> out, err |-> nil]
    ELSE LET it == DecodeIteration(in, i, out) IN
         IF it.err # nil THEN [out |-> <<>>, err |-> it.err]
         ELSE DecodeLoop(in, it.i, it.out)

\* decodeString as a function of its argument: [out, err]
decodeString(in) == DecodeLoop(in, 0, <<>>)

(***************************************************************************)
(* Load: splitting a logical line (lines 82-118)                           *)
(***************************************************************************)
IsSeparator(c) == c = chEquals \/ c = chColon

IsWhiteSpace(c) == c = chSpace \/ c = chTab \/ c = chFF

\* lines 99-103, and line 301 of readLine: the flag after byte c
FlipBackslash(c, precedingBackslash) == c = chBackslash /\ ~precedingBackslash

\* a key scan that takes no notice of the backslash before = or :
KeyEndsAtAnySeparator(c, precedingBackslash) == IsSeparator(c)

\* the conditions of lines 90 and 95
KeyEndsAtSeparator(c, precedingBackslash) == IsSeparator(c) /\ ~precedingBackslash

KeyEndsAtWhiteSpace(c, precedingBackslash) == IsWhiteSpace(c) /\ ~precedingBackslash

\* the loop of lines 87-106; yields [keyLen, hasSep, valueStart]
RECURSIVE KeyScan(_, _, _)
KeyScan(line, keyLen, precedingBackslash) ==
    IF keyLen >= Len(line)
    THEN [keyLen |-> keyLen, hasSep |-> FALSE, valueStart |-> Len(line)]
    ELSE LET c == line[keyLen + 1] IN
         IF KeyEndsAtSeparator(c, precedingBackslash)
         THEN [keyLen |-> keyLen, hasSep |-> TRUE, valueStart |-> keyLen + 1]
         ELSE IF KeyEndsAtWhiteSpace(c, precedingBackslash)
         THEN [keyLen |-> keyLen, hasSep |-> FALSE, valueStart |-> keyLen + 1]
         ELSE KeyScan(line, keyLen + 1, FlipBackslash(c, precedingBackslash))

\* a value scan that takes every = and : before the value for a separator
RECURSIVE ValueScanAllSeparators(_, _, _)
ValueScanAllSeparators(line, valueStart, hasSep) ==
    IF valueStart >= Len(line) THEN valueStart
    ELSE IF IsWhiteSpace(line[valueStart + 1]) \/ IsSeparator(line[valueStart + 1])
    THEN ValueScanAllSeparators(line, valueStart + 1, hasSep)
    ELSE valueStart

\* the loop of lines 108-118; yields valueStart
RECURSIVE ValueScan(_, _, _)
ValueScan(line, valueStart, hasSep) ==
    IF valueStart >= Len(line) THEN valueStart
    ELSE LET c == line[valueStart + 1] IN
         IF ~IsWhiteSpace(c)
         THEN IF ~hasSep /\ IsSeparator(c)
              THEN ValueScan(line, valueStart + 1, TRUE)
              ELSE valueStart
         ELSE ValueScan(line, valueStart + 1, hasSep)

\* lines 82-118 for one line: the key span is line[0:keyLen], the value
\* span line[valueStart:len(line)]
Split(line) ==
    LET k == KeyScan(line, 0, FALSE) IN
    [keyLen |-> k.keyLen, valueStart |-> ValueScan(line, k.valueStart, k.hasSep)]

\* a map in which the first value of a key stays
MapAssignKeepFirst(m, key, value) ==
    [k \in (DOMAIN m) \cup {key} |-> IF k \in DOMAIN m THEN m[k] ELSE value]

\* props[key] = value (line 127)
MapAssign(m, key, value) ==
    [k \in (DOMAIN m) \cup {key} |-> IF k = key THEN value ELSE m[k]]

\* make(map[string]string) (line 72)
EmptyMap == [k \in {} |-> <<>>]

\* a Load that hands out the map built so far together with the error
ReturnErrorWithMap(m, err) == [nilMap |-> FALSE, props |-> m, err |-> err]

\* return nil, err (lines 79, 121, 125): the map m built so far is dropped
ReturnError(m, err) == [nilMap |-> TRUE, props |-> EmptyMap, err |-> err]

\* return props, err (line 129), err being nil

ReturnProps(m) == [nilMap |-> FALSE, props |-> m, err |-> nil]

NotReturned == [nilMap |-> TRUE, props |-> EmptyMap, err |-> "running"]

(***************************************************************************)
(* io.ReadFull(lr.reader, lr.buffer) on a reader that delivers src and     *)
(* then io.EOF, or, when srcErrAt >= 0, src[0:srcErrAt] and then ErrIO     *)
(***************************************************************************)
ReadFull(buf, pos) ==
    LET stop == IF srcErrAt >= 0 THEN srcErrAt ELSE Len(src)
        n == Min(Len(buf), stop - pos)
        err == IF n = Len(buf) THEN nil
               ELSE IF srcErrAt >= 0 THEN ErrIO
               ELSE IF n = 0 THEN EOF
               ELSE ErrUnexpectedEOF
    IN [n |-> n, e |-> err, pos |-> pos + n,
        buffer |-> [i \in 1..Len(buf) |-> IF i <= n THEN src[pos + i] ELSE buf[i]]]

(***************************************************************************)
(* lineReader                                                              *)
(***************************************************************************)
\* newLineReader (lines 212-221) with buffers of the given lengths
newLineReader(bufLen, lineBufLen) ==
    [buffer |-> [i \in 1..bufLen |-> 0],
     lineBuffer |-> [i \in 1..lineBufLen |-> 0],
     limit |-> 0, offset |-> 0, exhausted |-> FALSE]

\* the locals of readLine as lines 228-236 set them
readLineLocals ==
    [nextCharIndex |-> 0, char |-> 0, skipLF |-> FALSE, skipWhiteSpace |-> TRUE,
     appendedLineBegin |-> FALSE, isNewLine |-> TRUE, isCommentLine |-> FALSE,
     precedingBackslash |-> FALSE]

IsEOL(c) == c = chLF \/ c = chCR

IsCommentMark(c) == c = chHash \/ c = chBang

\* the outcome of one iteration of readLine's loop: the loop goes on, or
\* readLine returns (line, err)
Continue(r, l, pos) ==
    [lr |-> r, rl |-> l, pos |-> pos, returns |-> FALSE, line |-> <<>>, e |-> nil]

Return(r, l, pos, line, err) ==
    [lr |-> r, rl |-> l, pos |-> pos, returns |-> TRUE, line |-> line, e |-> err]

\* string(lr.lineBuffer[0:nextCharIndex])
LineOf(r, l) == Slice(r.lineBuffer, 0, l.nextCharIndex)

\* the end of input met at the top of the loop (lines 242-254)
AtEOF(r, l, pos) ==
    IF l.isCommentLine
    THEN Return([r EXCEPT !.exhausted = TRUE], l, pos, <<>>, EOF)
    ELSE Return([r EXCEPT !.exhausted = TRUE], l, pos, LineOf(r, l), nil)

AtUnexpectedEOF(r, l, pos) ==
    IF l.isCommentLine
    THEN Return(r, l, pos, <<>>, EOF)
    ELSE Continue(r, l, pos)

\* an append that writes char and never replaces the full line buffer
AppendCharNoGrow(r, l, pos) ==
    IF l.nextCharIndex >= Len(r.lineBuffer)
    THEN Return(r, l, pos, <<>>, Panic)
    ELSE Continue([r EXCEPT !.lineBuffer[l.nextCharIndex + 1] = l.char],
                  [l EXCEPT !.nextCharIndex = @ + 1,
                            !.precedingBackslash =
                                FlipBackslash(l.char, l.precedingBackslash)],
                  pos)

\* lines 291-301: append char to the line buffer
AppendChar(r, l, pos) ==
    IF l.nextCharIndex >= Len(r.lineBuffer)
    THEN Return(r, l, pos, <<>>, Panic)
    ELSE LET written == [r.lineBuffer EXCEPT ![l.nextCharIndex + 1] = l.char]
             n == l.nextCharIndex + 1
             grown == IF n = Len(written)
                      THEN [i \in 1..(2 * Len(written)) |->
                               IF i <= Len(written) THEN written[i] ELSE 0]
                      ELSE written
         IN Continue([r EXCEPT !.lineBuffer = grown],
                     [l EXCEPT !.nextCharIndex = n,
                               !.precedingBackslash =
                                   FlipBackslash(l.char, l.precedingBackslash)],
                     pos)

\* lines 304-310: an end of line after a comment or after nothing
StartNewLine(l) ==
    [l EXCEPT !.isCommentLine = FALSE, !.isNewLine = TRUE,
              !.skipWhiteSpace = TRUE, !.nextCharIndex = 0]

\* a reader that does not join a line ending in a backslash to the next one
ContinueOrReturnNoJoin(r, l, pos) == Return(r, l, pos, LineOf(r, l), nil)

\* lines 323-334: the line goes on after a backslash, or is returned
ContinueOrReturn(r, l, pos) ==
    IF l.precedingBackslash
    THEN Continue(r,
                  [l EXCEPT !.nextCharIndex = @ - 1, !.skipWhiteSpace = TRUE,
                            !.appendedLineBegin = TRUE,
                            !.precedingBackslash = FALSE,
                            !.skipLF = IF l.char = chCR THEN TRUE ELSE @],
                  pos)
    ELSE Return(r, l, pos, LineOf(r, l), nil)

\* lines 303-335: char is an end of line
EndOfLine(r, l, pos) ==
    IF l.isCommentLine \/ l.nextCharIndex = 0
    THEN Continue(r, StartNewLine(l), pos)
    ELSE IF r.offset >= r.limit
    THEN LET rf == ReadFull(r.buffer, pos)
             r1 == [r EXCEPT !.limit = rf.n, !.offset = 0, !.buffer = rf.buffer]
         IN IF rf.e = EOF \/ rf.e = ErrUnexpectedEOF
            THEN Return([r1 EXCEPT !.exhausted = TRUE], l, rf.pos, LineOf(r1, l), nil)
            ELSE IF rf.e # nil
            THEN Return([r1 EXCEPT !.exhausted = TRUE], l, rf.pos, <<>>, rf.e)
            ELSE ContinueOrReturn(r1, l, rf.pos)
    ELSE ContinueOrReturn(r, l, pos)

\* lines 261-335: take the next byte of the raw buffer
TakeChar(r0, l0, pos) ==
    LET c == r0.buffer[r0.offset + 1]
        r == [r0 EXCEPT !.offset = @ + 1]
        l1 == [l0 EXCEPT !.char = c, !.skipLF = FALSE]
        l2 == IF l1.skipWhiteSpace
              THEN [l1 EXCEPT !.skipWhiteSpace = FALSE, !.appendedLineBegin = FALSE]
              ELSE l1
        l3 == [l2 EXCEPT !.isNewLine = FALSE]
    IN IF l0.skipLF /\ c = chLF THEN Continue(r, l1, pos)
       ELSE IF l1.skipWhiteSpace
               /\ (IsWhiteSpace(c) \/ (~l1.appendedLineBegin /\ IsEOL(c)))
       THEN Continue(r, l1, pos)
       ELSE IF l2.isNewLine /\ IsCommentMark(c)
       THEN Continue(r, [l3 EXCEPT !.isCommentLine = TRUE], pos)
       ELSE IF ~IsEOL(c) THEN AppendChar(r, l3, pos)
       ELSE EndOfLine(r, l3, pos)

\* a reader that hands out the line accumulated so far together with a read
\* error met at the top of the loop
readLineIterationKeepLine(r, l, pos) ==
    IF r.offset >= r.limit
    THEN LET rf == ReadFull(r.buffer, pos)
             r1 == [r EXCEPT !.limit = rf.n, !.offset = 0, !.buffer = rf.buffer]
         IN IF rf.e = EOF THEN AtEOF(r1, l, rf.pos)
            ELSE IF rf.e = ErrUnexpectedEOF THEN AtUnexpectedEOF(r1, l, rf.pos)
            ELSE IF rf.e # nil
            THEN Return([r1 EXCEPT !.exhausted = TRUE], l, rf.pos, LineOf(r1, l), rf.e)
            ELSE TakeChar(r1, l, rf.pos)
    ELSE TakeChar(r, l, pos)

\* one iteration of the loop of lines 238-336
readLineIteration(r, l, pos) ==
    IF r.offset >= r.limit
    THEN LET rf == ReadFull(r.buffer, pos)
             r1 == [r EXCEPT !.limit = rf.n, !.offset = 0, !.buffer = rf.buffer]
         IN IF rf.e = EOF THEN AtEOF(r1, l, rf.pos)
            ELSE IF rf.e = ErrUnexpectedEOF THEN AtUnexpectedEOF(r1, l, rf.pos)
            ELSE IF rf.e # nil
            THEN Return([r1 EXCEPT !.exhausted = TRUE], l, rf.pos, <<>>, rf.e)
            ELSE TakeChar(r1, l, rf.pos)
    ELSE TakeChar(r, l, pos)

(***************************************************************************)
(* The program: Load(src) as a state machine                               *)
(***************************************************************************)
\* no decodeString call yet
NoDecode ==
    [part |-> "key", in |-> <<>>, i |-> 0, out |-> <<>>, key |-> <<>>,
     valueSpan |-> <<>>]

\* Load after lines 70-72, for an input, a reader failure position and the
\* lengths newLineReader gives the two buffers
CallStarts(input, errAt, bufLen, lineBufLen) ==
    /\ src = input
    /\ srcErrAt = errAt
    /\ srcPos = 0
    /\ lr = newLineReader(bufLen, lineBufLen)
    /\ rl = readLineLocals
    /\ pc = "load"
    /\ s = <<>>
    /\ e = nil
    /\ dec = NoDecode
    /\ props = EmptyMap
    /\ result = NotReturned
    /\ lines = <<>>
    /\ origin = <<>>
    /\ linesFrom = <<>>
    /\ inserted = <<>>

\* no second call
NoCall == [pc |-> "none"]

\* one call of Load, alone
LoadStarts(input, errAt, bufLen, lineBufLen) ==
    /\ CallStarts(input, errAt, bufLen, lineBufLen)
    /\ other = NoCall

\* line 74, lines 225-236: Load calls readLine
CallReadLine ==
    /\ pc = "load"
    /\ IF lr.exhausted
       THEN /\ pc' = "returned"
            /\ s' = <<>>
            /\ e' = EOF
            /\ rl' = rl
       ELSE /\ pc' = "readLine"
            /\ rl' = readLineLocals
            /\ UNCHANGED <<s, e>>
    /\ origin' = <<>>
    /\ UNCHANGED <<src, srcErrAt, srcPos, lr, dec, props, result, lines, linesFrom, inserted,
                   other>>

\* the place in src (from 1) of the byte the next iteration takes from the
\* raw buffer, which holds src[srcPos-limit : srcPos]
TakenFrom ==
    IF lr.offset < lr.limit THEN srcPos - lr.limit + lr.offset + 1 ELSE srcPos + 1

\* lines 238-336: one iteration of readLine's loop
ReadLineStep ==
    /\ pc = "readLine"
    /\ LET it == readLineIteration(lr, rl, srcPos) IN
       /\ lr' = it.lr
       /\ rl' = it.rl
       /\ srcPos' = it.pos
       /\ pc' = IF ~it.returns THEN "readLine"
                ELSE IF it.e = Panic THEN "panic"
                ELSE "returned"
       /\ s' = IF it.returns THEN it.line ELSE s
       /\ e' = IF it.returns THEN it.e ELSE e
       /\ lines' = IF it.returns /\ it.e = nil THEN Append(lines, it.line) ELSE lines
       /\ origin' = IF it.rl.nextCharIndex = rl.nextCharIndex + 1
                    THEN Append(origin, TakenFrom)
                    ELSE SubSeq(origin, 1, it.rl.nextCharIndex)
       /\ linesFrom' = IF it.returns /\ it.e = nil
                       THEN Append(linesFrom, origin')
                       ELSE linesFrom
    /\ UNCHANGED <<src, srcErrAt, dec, props, result, inserted, other>>

\* lines 75-119: Load takes what readLine returned, splits the line and
\* calls decodeString on the key span
LoadStep ==
    /\ pc = "returned"
    /\ IF e = EOF
       THEN /\ pc' = "done"
            /\ result' = ReturnProps(props)
            /\ dec' = dec
       ELSE IF e # nil
       THEN /\ pc' = "done"
            /\ result' = ReturnError(props, e)
            /\ dec' = dec
       ELSE LET sp == Split(s) IN
            /\ pc' = "decodeString"
            /\ dec' = [part |-> "key", in |-> Slice(s, 0, sp.keyLen), i |-> 0,
                       out |-> <<>>, key |-> <<>>,
                       valueSpan |-> Slice(s, sp.valueStart, Len(s))]
            /\ result' = result
    /\ UNCHANGED <<src, srcErrAt, srcPos, lr, rl, s, e, lines, origin, linesFrom, props,
                   inserted, other>>

\* lines 119-127: decodeString of the key span has returned out
KeyDecoded(out) ==
    /\ pc' = "decodeString"
    /\ dec' = [dec EXCEPT !.part = "value", !.in = dec.valueSpan, !.i = 0,
                          !.out = <<>>, !.key = out]
    /\ UNCHANGED <<props, inserted>>

ValueDecoded(out) ==
    /\ pc' = "load"
    /\ props' = MapAssign(props, dec.key, out)
    /\ inserted' = Append(inserted, <<dec.key, out>>)
    /\ dec' = [dec EXCEPT !.out = out]

\* lines 136-197 and Load's lines 119-127: one iteration of decodeString's
\* loop, or its return to Load
DecodeStep ==
    /\ pc = "decodeString"
    /\ IF dec.i >= Len(dec.in)
       THEN /\ IF dec.part = "key" THEN KeyDecoded(dec.out) ELSE ValueDecoded(dec.out)
            /\ result' = result
       ELSE LET it == DecodeIteration(dec.in, dec.i, dec.out) IN
            /\ dec' = [dec EXCEPT !.i = it.i, !.out = it.out]
            /\ pc' = IF it.err = nil THEN "decodeString"
                     ELSE IF it.err = Panic THEN "panic"
                     ELSE "done"
            /\ result' = IF it.err = nil \/ it.err = Panic THEN result
                         ELSE ReturnError(props, it.err)
            /\ UNCHANGED <<props, inserted>>
    /\ UNCHANGED <<src, srcErrAt, srcPos, lr, rl, s, e, lines, origin, linesFrom, other>>

Next == CallReadLine \/ ReadLineStep \/ LoadStep \/ DecodeStep

(***************************************************************************)
(* Inputs                                                                  *)
(***************************************************************************)
\* all byte sequences over an alphabet of length at most n
SeqsUpTo(alphabet, n) == UNION {[1..k -> alphabet] : k \in 0..n}

\* the raw buffer length of newLineReader (line 215) and the initial line
\* buffer length (line 216)
BufferSize == 1024
LineBufferSize == 1024

\* scaled-down buffer lengths, so that refills and growth happen on short inputs
SmallBuffer == 2
SmallLineBuffer == 2
MaxLen == 5

\* two lengths that make short inputs span refills, and one that holds the
\* whole input, as 1024 does for inputs shorter than that
BufferSizes == {SmallBuffer, SmallBuffer + 1, MaxLen + 1}

\* lines, comments, continuations, separators
Alphabet == {chLowerA, chEquals, chBackslash, chLF, chHash, chSpace}

Init ==
    \E input \in SeqsUpTo(Alphabet, MaxLen), bufLen \in BufferSizes :
        LoadStarts(input, -1, bufLen, SmallLineBuffer)

Spec == Init /\ [][Next]_vars

(***************************************************************************)
(* The documented example (lines 20-35 of properties.go), as bytes:        *)
(*   # You are reading the ".properties" entry.                            *)
(*   ! The exclamation mark can also mark text as comments.                *)
(*   website = http://en.wikipedia.org/                                    *)
(*   language = English                                                    *)
(*   # The backslash below tells the application to continue reading       *)
(*   # the value onto the next line.                                       *)
(*   message = Welcome to \                                                *)
(*             Wikipedia!                                                  *)
(*   # Add spaces to the key                                               *)
(*   key\ with\ spaces = This is the value that could be looked up with   *)
(*       the \                      (one physical line in the source)     *)
(*   key "key with spaces".                                                *)
(*   # Empty lines are skipped                                             *)
(*                                                                         *)
(*   # Unicode                                                             *)
(*   unicode=\u041f\u0440\u0438\u0432\u0435\u0442, \u0421\u043e\u0432\u0430!  *)
(*   # Comment                                                             *)
(* every line ended by a line feed                                         *)
(***************************************************************************)
ExampleInput ==
    <<35, 32, 89, 111, 117, 32, 97, 114, 101, 32, 114, 101, 97, 100, 105, 110,
    103, 32, 116, 104, 101, 32, 34, 46, 112, 114, 111, 112, 101, 114, 116,
    105, 101, 115, 34, 32, 101, 110, 116, 114, 121, 46, 10, 33, 32, 84, 104,
    101, 32, 101, 120, 99, 108, 97, 109, 97, 116, 105, 111, 110, 32, 109,
    97, 114, 107, 32, 99, 97, 110, 32, 97, 108, 115, 111, 32, 109, 97, 114,
    107, 32, 116, 101, 120, 116, 32, 97, 115, 32, 99, 111, 109, 109, 101,
    110, 116, 115, 46, 10, 119, 101, 98, 115, 105, 116, 101, 32, 61, 32,
    104, 116, 116, 112, 58, 47, 47, 101, 110, 46, 119, 105, 107, 105, 112,
    101, 100, 105, 97, 46, 111, 114, 103, 47, 10, 108, 97, 110, 103, 117,
    97, 103, 101, 32, 61, 32, 69, 110, 103, 108, 105, 115, 104, 10, 35, 32,
    84, 104, 101, 32, 98, 97, 99, 107, 115, 108, 97, 115, 104, 32, 98, 101,
    108, 111, 119, 32, 116, 101, 108, 108, 115, 32, 116, 104, 101, 32, 97,
    112, 112, 108, 105, 99, 97, 116, 105, 111, 110, 32, 116, 111, 32, 99,
    111, 110, 116, 105, 110, 117, 101, 32, 114, 101, 97, 100, 105, 110, 103,
    10, 35, 32, 116, 104, 101, 32, 118, 97, 108, 117, 101, 32, 111, 110,
    116, 111, 32, 116, 104, 101, 32, 110, 101, 120, 116, 32, 108, 105, 110,
    101, 46, 10, 109, 101, 115, 115, 97, 103, 101, 32, 61, 32, 87, 101, 108,
    99, 111, 109, 101, 32, 116, 111, 32, 92, 10, 32, 32, 32, 32, 32, 32, 32,
    32, 32, 32, 87, 105, 107, 105, 112, 101, 100, 105, 97, 33, 10, 35, 32,
    65, 100, 100, 32, 115, 112, 97, 99, 101, 115, 32, 116, 111, 32, 116,
    104, 101, 32, 107, 101, 121, 10, 107, 101, 121, 92, 32, 119, 105, 116,
    104, 92, 32, 115, 112, 97, 99, 101, 115, 32, 61, 32, 84, 104, 105, 115,
    32, 105, 115, 32, 116, 104, 101, 32, 118, 97, 108, 117, 101, 32, 116,
    104, 97, 116, 32, 99, 111, 117, 108, 100, 32, 98, 101, 32, 108, 111,
    111, 107, 101, 100, 32, 117, 112, 32, 119, 105, 116, 104, 32, 116, 104,
    101, 32, 92, 10, 107, 101, 121, 32, 34, 107, 101, 121, 32, 119, 105,
    116, 104, 32, 115, 112, 97, 99, 101, 115, 34, 46, 10, 35, 32, 69, 109,
    112, 116, 121, 32, 108, 105, 110, 101, 115, 32, 97, 114, 101, 32, 115,
    107, 105, 112, 112, 101, 100, 10, 10, 35, 32, 85, 110, 105, 99, 111,
    100, 101, 10, 117, 110, 105, 99, 111, 100, 101, 61, 92, 117, 48, 52, 49,
    102, 92, 117, 48, 52, 52, 48, 92, 117, 48, 52, 51, 56, 92, 117, 48, 52,
    51, 50, 92, 117, 48, 52, 51, 53, 92, 117, 48, 52, 52, 50, 44, 32, 92,
    117, 48, 52, 50, 49, 92, 117, 48, 52, 51, 101, 92, 117, 48, 52, 51, 50,
    92, 117, 48, 52, 51, 48, 33, 10, 35, 32, 67, 111, 109, 109, 101, 110,
    116, 10>>

\* "website"
KeyWebsite ==
    <<119, 101, 98, 115, 105, 116, 101>>

\* "http://en.wikipedia.org/"
ValWebsite ==
    <<104, 116, 116, 112, 58, 47, 47, 101, 110, 46, 119, 105, 107, 105, 112,
    101, 100, 105, 97, 46, 111, 114, 103, 47>>

\* "language"
KeyLanguage ==
    <<108, 97, 110, 103, 117, 97, 103, 101>>

\* "English"
ValLanguage ==
    <<69, 110, 103, 108, 105, 115, 104>>

\* "message"
KeyMessage ==
    <<109, 101, 115, 115, 97, 103, 101>>

\* "Welcome to Wikipedia!"
ValMessage ==
    <<87, 101, 108, 99, 111, 109, 101, 32, 116, 111, 32, 87, 105, 107, 105,
    112, 101, 100, 105, 97, 33>>

\* "key with spaces"
KeyKeyWithSpaces ==
    <<107, 101, 121, 32, 119, 105, 116, 104, 32, 115, 112, 97, 99, 101, 115>>

\* the joined sentence
ValKeyWithSpaces ==
    <<84, 104, 105, 115, 32, 105, 115, 32, 116, 104, 101, 32, 118, 97, 108,
    117, 101, 32, 116, 104, 97, 116, 32, 99, 111, 117, 108, 100, 32, 98,
    101, 32, 108, 111, 111, 107, 101, 100, 32, 117, 112, 32, 119, 105, 116,
    104, 32, 116, 104, 101, 32, 107, 101, 121, 32, 34, 107, 101, 121, 32,
    119, 105, 116, 104, 32, 115, 112, 97, 99, 101, 115, 34, 46>>

\* "unicode"
KeyUnicode ==
    <<117, 110, 105, 99, 111, 100, 101>>

\* the Cyrillic greeting of the tests, in UTF-8
ValUnicode ==
    <<208, 159, 209, 128, 208, 184, 208, 178, 208, 181, 209, 130, 44, 32, 208,
    161, 208, 190, 208, 178, 208, 176, 33>>

InitExample == LoadStarts(ExampleInput, -1, BufferSize, LineBufferSize)

SpecExample == InitExample /\ [][Next]_vars

\* C1: Load of the documented example returns no error and a mapping that
\* holds, for each of the five keys, the joined and decoded value.
C1_Example ==
    /\ pc # "panic"
    /\ pc = "done" =>
        /\ result.err = nil
        /\ ~result.nilMap
        /\ {KeyWebsite, KeyLanguage, KeyMessage, KeyKeyWithSpaces, KeyUnicode}
               \subseteq DOMAIN result.props
        /\ result.props[KeyWebsite] = ValWebsite
        /\ result.props[KeyLanguage] = ValLanguage
        /\ result.props[KeyMessage] = ValMessage
        /\ result.props[KeyKeyWithSpaces] = ValKeyWithSpaces
        /\ result.props[KeyUnicode] = ValUnicode

\* Load has returned after five assignments to the five keys
C1_Witness ==
    /\ pc = "done"
    /\ src = ExampleInput
    /\ Len(inserted) >= 5
    /\ KeyUnicode \in DOMAIN result.props

(***************************************************************************)
(* Inputs with malformed escapes, from readers that may fail               *)
(***************************************************************************)
AlphabetErr == {chLowerA, chBackslash, chLowerU, chLF}

InitErr ==
    \E input \in SeqsUpTo(AlphabetErr, MaxLen), bufLen \in {SmallBuffer, MaxLen + 1} :
        \E errAt \in -1..Len(input) :
            LoadStarts(input, errAt, bufLen, SmallLineBuffer)

SpecErr == InitErr /\ [][Next]_vars

RECURSIVE PhysFrom(_, _, _)
PhysFrom(input, start, i) ==
    IF i > Len(input)
    THEN IF start <= Len(input)
         THEN <<[lo |-> start, hi |-> Len(input), term |-> FALSE]>>
         ELSE <<>>
    ELSE IF IsEOL(input[i])
    THEN LET next == IF input[i] = chCR /\ i < Len(input) /\ input[i + 1] = chLF
                     THEN i + 2
                     ELSE i + 1
         IN <<[lo |-> start, hi |-> i - 1, term |-> TRUE]>>
                \o PhysFrom(input, next, next)
    ELSE PhysFrom(input, start, i + 1)

PhysicalLines(input) == PhysFrom(input, 1, 1)

\* the places of a physical line from its first non-whitespace byte on
Stripped(input, pl) ==
    LET ks == {k \in pl.lo..pl.hi : ~IsWhiteSpace(input[k])} IN
    IF ks = {} THEN <<>>
    ELSE LET first == CHOOSE k \in ks : \A j \in ks : k <= j
         IN [j \in 1..(pl.hi - first + 1) |-> first + j - 1]

\* the number of backslashes that end the bytes at places P
RECURSIVE TrailingBackslashes(_, _)
TrailingBackslashes(input, P) ==
    IF P = <<>> \/ input[P[Len(P)]] # chBackslash THEN 0
    ELSE 1 + TrailingBackslashes(input, SubSeq(P, 1, Len(P) - 1))

IsBlankLine(input, pl) == Stripped(input, pl) = <<>>

IsCommentLine(input, pl) ==
    Stripped(input, pl) # <<>> /\ IsCommentMark(input[Stripped(input, pl)[1]])

\* a terminated physical line that ends in an odd number of backslashes
\* continues on the next one
Continues(input, pl) ==
    pl.term /\ TrailingBackslashes(input, Stripped(input, pl)) % 2 = 1

\* the logical lines from physical line k on, as places in the input; cur is
\* the logical line under construction when physical line k continues it
RECURSIVE RefScan(_, _, _, _, _)
RefScan(input, pls, k, cur, cont) ==
    IF k > Len(pls) THEN (IF cur # <<>> THEN <<cur>> ELSE <<>>)
    ELSE LET joined == cur \o Stripped(input, pls[k]) IN
         IF ~cont /\ (IsBlankLine(input, pls[k]) \/ IsCommentLine(input, pls[k]))
         THEN RefScan(input, pls, k + 1, <<>>, FALSE)
         ELSE IF Continues(input, pls[k])
         THEN RefScan(input, pls, k + 1, SubSeq(joined, 1, Len(joined) - 1), TRUE)
         ELSE (IF joined # <<>> THEN <<joined>> ELSE <<>>)
                  \o RefScan(input, pls, k + 1, <<>>, FALSE)

\* the places of the bytes of comment lines from physical line k on
RECURSIVE RefCommentScan(_, _, _, _)
RefCommentScan(input, pls, k, cont) ==
    IF k > Len(pls) THEN {}
    ELSE IF ~cont /\ IsBlankLine(input, pls[k])
    THEN RefCommentScan(input, pls, k + 1, FALSE)
    ELSE IF ~cont /\ IsCommentLine(input, pls[k])
    THEN (pls[k].lo..pls[k].hi) \cup RefCommentScan(input, pls, k + 1, FALSE)
    ELSE RefCommentScan(input, pls, k + 1, Continues(input, pls[k]))

RefLineFrom(input) == RefScan(input, PhysicalLines(input), 1, <<>>, FALSE)

\* the logical lines of an input, as bytes
RefLines(input) ==
    [n \in 1..Len(RefLineFrom(input)) |->
        [j \in 1..Len(RefLineFrom(input)[n]) |-> input[RefLineFrom(input)[n][j]]]]

RefCommentPlaces(input) == RefCommentScan(input, PhysicalLines(input), 1, FALSE)

IsPrefix(a, b) == Len(a) <= Len(b) /\ \A i \in 1..Len(a) : a[i] = b[i]

NonEmptyLines == SelectSeq(lines, LAMBDA x : x # <<>>)

\* Load or a readLine call has just ended
AtReturn == pc \in {"returned", "done", "panic"}

(***************************************************************************)
(* Blank lines and the end of input (checked under Spec)                   *)
(***************************************************************************)
\* some physical line of the input is empty or holds only space, tab, form feed
HasBlankLine(input) ==
    \E k \in 1..Len(PhysicalLines(input)) : IsBlankLine(input, PhysicalLines(input)[k])

\* C3: blank lines are skipped: for an input with a blank line, wherever it
\* stands, readLine returns no empty logical line, and Load assigns the empty
\* key only for a line that begins with a separator, never for a blank line.
C3_BlankLinesSkipped ==
    HasBlankLine(src) =>
        /\ \A i \in 1..Len(lines) : lines[i] # <<>>
        /\ \A i \in 1..Len(inserted) :
               inserted[i][1] = <<>> => lines[i] # <<>> /\ IsSeparator(lines[i][1])

\* C4: when the input ends with nothing accumulated in the line buffer,
\* readLine returns io.EOF and no line; Load of a zero-byte input returns an
\* empty mapping and no error.
C4_EndOfInput ==
    /\ (pc = "returned" /\ lr.exhausted /\ rl.nextCharIndex = 0) =>
           e = EOF /\ s = <<>>
    /\ (pc = "done" /\ src = <<>>) => result = ReturnProps(EmptyMap)

(***************************************************************************)
(* Continuation and comments                                               *)
(***************************************************************************)
\* C5: every physical line of a declaration that ends in an odd number of
\* backslashes before its terminator loses the last backslash and is joined
\* to the next physical line without that line's leading whitespace; one
\* that ends in an even number ends the logical line, which is returned with
\* all its backslashes; whatever preceded the line and wherever its
\* terminator falls.  So the non-empty lines readLine returns are the
\* logical lines of the input, in order.
C5_Continuation ==
    AtReturn =>
        /\ IsPrefix(NonEmptyLines, RefLines(src))
        /\ (pc = "done" /\ result.err = nil) => NonEmptyLines = RefLines(src)

\* inputs of comment lines, backslashes and line ends, read in one refill
AlphabetComments == {chHash, chBackslash, chLF, chLowerA}

MaxLenComments == 7

InitComments ==
    \E input \in SeqsUpTo(AlphabetComments, MaxLenComments) :
        LoadStarts(input, -1, MaxLenComments + 1, SmallLineBuffer)

SpecComments == InitComments /\ [][Next]_vars

\* C6: comment lines (first non-whitespace byte of a fresh physical line is
\* # or !) never contribute: no line readLine returns holds a byte of a
\* comment line, so Load assigns no key because of one.
C6_CommentsIgnored ==
    \A i \in 1..Len(linesFrom) :
        \A k \in 1..Len(linesFrom[i]) : linesFrom[i][k] \notin RefCommentPlaces(src)

(***************************************************************************)
(* Keys: escaped separators, duplicate keys                                *)
(***************************************************************************)
AlphabetKeys == {chLowerA, chEquals, chBackslash, chSpace}

AlphabetDuplicates == {chLowerA, chEquals, chBackslash, chLF}

MaxLenKeys == 5

\* one-line inputs for the key scan, and inputs of several short lines
InitKeys ==
    \E input \in SeqsUpTo(AlphabetKeys, MaxLenKeys)
                   \cup SeqsUpTo(AlphabetDuplicates, MaxLenKeys + 1) :
        LoadStarts(input, -1, MaxLenKeys + 2, SmallLineBuffer)

SpecKeys == InitKeys /\ [][Next]_vars

\* the number of backslashes that stand right before place p of a line
RECURSIVE BackslashesBefore(_, _)
BackslashesBefore(line, p) ==
    IF p <= 1 \/ line[p - 1] # chBackslash THEN 0
    ELSE 1 + BackslashesBefore(line, p - 1)

\* a backslash that escapes the byte after it
IsEscape(line, p) == line[p] = chBackslash /\ BackslashesBefore(line, p) % 2 = 0

\* the length of the key by the format's rule: the key ends before the first
\* =, :, space, tab or form feed that an even number of backslashes precedes
RefKeyLen(line) ==
    LET ends == {p \in 1..Len(line) :
                    /\ IsSeparator(line[p]) \/ IsWhiteSpace(line[p])
                    /\ BackslashesBefore(line, p) % 2 = 0}
    IN IF ends = {} THEN Len(line)
       ELSE (CHOOSE p \in ends : \A q \in ends : p <= q) - 1

\* a span without its escaping backslashes, from place p on
RECURSIVE DropEscapes(_, _)
DropEscapes(span, p) ==
    IF p > Len(span) THEN <<>>
    ELSE IF IsEscape(span, p) THEN DropEscapes(span, p + 1)
    ELSE <<span[p]>> \o DropEscapes(span, p + 1)

\* C7: in Load's key scan a separator character preceded by an odd number
\* of backslashes belongs to the key and stands in the decoded key without
\* its backslash; one preceded by an even number of backslashes ends the key.
C7_EscapedSeparators ==
    /\ (pc = "decodeString" /\ dec.part = "key") => Len(dec.in) = RefKeyLen(s)
    /\ \A i \in 1..Len(inserted) :
           inserted[i][1] = DropEscapes(SubSeq(lines[i], 1, RefKeyLen(lines[i])), 1)

\* the line \=\\=  has been split: the key is =\ (the first = is escaped, the
\* second one, after two backslashes, ends the key)
C7_Witness ==
    /\ inserted # <<>>
    /\ lines[1] = <<chBackslash, chEquals, chBackslash, chBackslash, chEquals>>
    /\ inserted[1][1] = <<chEquals, chBackslash>>

\* C10: when several logical lines have the same decoded key, the mapping
\* holds for that key the value of the last of them, and one entry.
C10_LastWins ==
    LET keys == {inserted[i][1] : i \in 1..Len(inserted)} IN
    /\ DOMAIN props = keys
    /\ \A k \in keys :
           LET last == CHOOSE i \in 1..Len(inserted) :
                           /\ inserted[i][1] = k
                           /\ \A j \in 1..Len(inserted) : inserted[j][1] = k => j <= i
           IN props[k] = inserted[last][2]
    /\ (pc = "done" /\ result.err = nil) => result.props = props

\* Load returned after the lines  a  and  \a=a : the keys differ as written
\* and agree once decoded, the values differ, and the second value stays
C10_Witness ==
    /\ pc = "done"
    /\ result.err = nil
    /\ lines = <<<<chLowerA>>, <<chBackslash, chLowerA, chEquals, chLowerA>>>>
    /\ inserted = <<<<<<chLowerA>>, <<>>>>, <<<<chLowerA>>, <<chLowerA>>>>>>
    /\ result.props = MapAssign(EmptyMap, <<chLowerA>>, <<chLowerA>>)

(***************************************************************************)
(* \uXXXX escapes                                                          *)
(***************************************************************************)
IsHexDigit(c) ==
    c \in (chZero..chNine) \cup (chUpperA..chUpperF) \cup (chLowerA..chLowerF)

\* the span holds an escaping backslash followed by u and then something else
\* than four hexadecimal digits, or the end of the span
BadUnicodeEscape(span) ==
    \E p \in 1..(Len(span) - 1) :
        /\ IsEscape(span, p)
        /\ span[p + 1] = chLowerU
        /\ ~(p + 5 <= Len(span) /\ \A j \in 2..5 : IsHexDigit(span[p + j]))

\* C8: whenever the key span or the value span of a line holds \u not
\* followed by four hexadecimal digits (another character among the next
\* four, or the end of the span), Load returns ErrMalformedUtf8Encoding and
\* no mapping.
C8_MalformedEscape ==
    (/\ pc \in {"done", "panic"}
     /\ e = nil
     /\ \/ BadUnicodeEscape(Slice(s, 0, Split(s).keyLen))
        \/ BadUnicodeEscape(Slice(s, Split(s).valueStart, Len(s))))
    => /\ pc = "done"
       /\ result.err = ErrMalformedUtf8Encoding
       /\ result.nilMap

\* hexadecimal digits of both cases: 0 7 8 d D f F
HexSample ==
    {chZero, chZero + 7, chZero + 8, chLowerA + 3, chUpperA + 3, chLowerF, chUpperF}

\* the text before and after the escape: nothing or the letter a
AroundEscape == {<<>>, <<chLowerA>>}

\* inputs of one line: \u and four digits, text before and after
InitUnicode ==
    \E pre \in AroundEscape, post \in AroundEscape, digits \in [1..4 -> HexSample] :
        LET input == pre \o <<chBackslash, chLowerU>> \o digits \o post
        IN LoadStarts(input, -1, Len(input) + 1, SmallLineBuffer)

SpecUnicode == InitUnicode /\ [][Next]_vars

\* the value of a hexadecimal digit
DigitValue(c) ==
    IF c <= chNine THEN c - chZero
    ELSE IF c <= chUpperF THEN c - chUpperA + 10
    ELSE c - chLowerA + 10

\* the code points a UTF-8 byte sequence stands for, runes of up to three
\* bytes; -1 ends the sequence where the bytes are no UTF-8
RECURSIVE Utf8Runes(_)
Utf8Runes(b) ==
    LET cont(k) == k <= Len(b) /\ b[k] \in 128..191 IN
    IF b = <<>> THEN <<>>
    ELSE IF b[1] < 128 THEN <<b[1]>> \o Utf8Runes(Tail(b))
    ELSE IF b[1] \in 192..223 /\ cont(2)
    THEN <<(b[1] - 192) * 64 + (b[2] - 128)>> \o Utf8Runes(SubSeq(b, 3, Len(b)))
    ELSE IF b[1] \in 224..239 /\ cont(2) /\ cont(3)
    THEN <<(b[1] - 224) * 4096 + (b[2] - 128) * 64 + (b[3] - 128)>>
             \o Utf8Runes(SubSeq(b, 4, Len(b)))
    ELSE <<-1>>

\* the place of the backslash of a one-escape input
EscapePlace(input) == CHOOSE p \in 1..Len(input) : input[p] = chBackslash

\* the code points a one-escape input stands for: the text before, the code
\* point of the four digits, the text after
EscapeMeaning(input) ==
    LET p == EscapePlace(input) IN
    SubSeq(input, 1, p - 1)
        \o <<4096 * DigitValue(input[p + 2]) + 256 * DigitValue(input[p + 3])
                + 16 * DigitValue(input[p + 4]) + DigitValue(input[p + 5])>>
        \o SubSeq(input, p + 6, Len(input))

\* C9: for every code point c of 0..0xFFFF, \u followed by the four
\* hexadecimal digits of c (in either case) decodes to the one code point c
\* at that place, the text before and after decoded as usual.
C9_RoundTrip ==
    pc \in {"done", "panic"} =>
        /\ pc = "done"
        /\ result.err = nil
        /\ Len(inserted) = 1
        /\ Utf8Runes(inserted[1][1]) = EscapeMeaning(src)
        /\ result.props = MapAssign(EmptyMap, inserted[1][1], <<>>)

(***************************************************************************)
(* Read errors (checked under SpecErr)                                     *)
(***************************************************************************)
\* a step of readLine in which a refill met the reader's error: the raw
\* buffer starts afresh, short of its length, at the failing position
ErrorRefill ==
    /\ pc = "readLine"
    /\ srcErrAt >= 0
    /\ srcPos' = srcErrAt
    /\ lr'.offset = 0
    /\ lr'.limit < Len(lr'.buffer)

\* C11: when the source reports an error other than end of input on a
\* refill, readLine returns that error and an empty line at once, whatever
\* was accumulated or delivered with the error, and Load returns the error;
\* the partial line is neither returned nor inserted.
C11_ReadError ==
    [][/\ ErrorRefill =>
              /\ pc' = "returned"
              /\ e' = ErrIO
              /\ s' = <<>>
              /\ lines' = lines
       /\ (pc = "returned" /\ e = ErrIO) =>
              /\ pc' = "done"
              /\ result'.err = ErrIO
              /\ result'.nilMap
              /\ inserted' = inserted]_vars

\* Load returned the reader's error met with two bytes of a line accumulated
\* and one more byte delivered together with the error
C11_Witness ==
    /\ pc = "done"
    /\ result.err = ErrIO
    /\ rl.nextCharIndex = 2
    /\ lr.limit = 1
    /\ lines = <<>>

(***************************************************************************)
(* readLine and Load as functions of the reader's state, the source being  *)
(* src                                                                     *)
(***************************************************************************)
\* the loop of lines 238-336 up to the return
RECURSIVE readLineLoop(_, _, _)
readLineLoop(r, l, pos) ==
    LET it == readLineIteration(r, l, pos) IN
    IF it.returns THEN it ELSE readLineLoop(it.lr, it.rl, it.pos)

\* one call of readLine (lines 224-339) on reader r, the source at pos
readLine(r, pos) ==
    IF r.exhausted THEN Return(r, readLineLocals, pos, <<>>, EOF)
    ELSE readLineLoop(r, readLineLocals, pos)

\* a call that ended in a run-time panic
Panicked == [nilMap |-> TRUE, props |-> EmptyMap, err |-> Panic]

\* the loop of lines 73-128 with the map m built so far
RECURSIVE LoadLoop(_, _, _)
LoadLoop(r, pos, m) ==
    LET c == readLine(r, pos) IN
    IF c.e = EOF THEN ReturnProps(m)
    ELSE IF c.e = Panic THEN Panicked
    ELSE IF c.e # nil THEN ReturnError(m, c.e)
    ELSE LET sp == Split(c.line)
             key == decodeString(Slice(c.line, 0, sp.keyLen))
             value == decodeString(Slice(c.line, sp.valueStart, Len(c.line)))
         IN IF key.err = Panic THEN Panicked
            ELSE IF key.err # nil THEN ReturnError(m, key.err)
            ELSE IF value.err = Panic THEN Panicked
            ELSE IF value.err # nil THEN ReturnError(m, value.err)
            ELSE LoadLoop(c.lr, c.pos, MapAssign(m, key.out, value.out))

\* Load (lines 69-130) of the source, with buffers of the given lengths
Load(bufLen, lineBufLen) == LoadLoop(newLineReader(bufLen, lineBufLen), 0, EmptyMap)

\* what the call under way returns when nothing else runs
LoadAlone == Load(Len(lr.buffer), SmallLineBuffer)

(***************************************************************************)
(* Two calls of Load                                                       *)
(***************************************************************************)
\* all that a call of Load owns: its reader and buffers (lines 71, 212-221),
\* its map (line 72), its locals
Context ==
    [src |-> src, srcErrAt |-> srcErrAt, srcPos |-> srcPos, lr |-> lr, rl |-> rl,
     pc |-> pc, s |-> s, e |-> e, dec |-> dec, props |-> props, result |-> result,
     lines |-> lines, origin |-> origin, linesFrom |-> linesFrom,
     inserted |-> inserted]

\* the context of a call after lines 70-72
InitialContext(input, errAt, bufLen, lineBufLen) ==
    [src |-> input, srcErrAt |-> errAt, srcPos |-> 0,
     lr |-> newLineReader(bufLen, lineBufLen), rl |-> readLineLocals,
     pc |-> "load", s |-> <<>>, e |-> nil, dec |-> NoDecode, props |-> EmptyMap,
     result |-> NotReturned, lines |-> <<>>, origin |-> <<>>, linesFrom |-> <<>>,
     inserted |-> <<>>]

\* how many times the running call changed, counted up to this
MaxSwitches == 2

\* the call that was waiting runs now
Resume(c) ==
    /\ src' = c.src
    /\ srcErrAt' = c.srcErrAt
    /\ srcPos' = c.srcPos
    /\ lr' = c.lr
    /\ rl' = c.rl
    /\ pc' = c.pc
    /\ s' = c.s
    /\ e' = c.e
    /\ dec' = c.dec
    /\ props' = c.props
    /\ result' = c.result
    /\ lines' = c.lines
    /\ origin' = c.origin
    /\ linesFrom' = c.linesFrom
    /\ inserted' = c.inserted

\* the context in which the running call waits
Suspended(c) ==
    [c EXCEPT !.switches = IF other.switches < MaxSwitches THEN other.switches + 1
                           ELSE other.switches]

\* two calls that write into one line buffer
SwitchSharedLineBuffer ==
    /\ other.pc \notin {"none", "done", "panic"}
    /\ other' = Suspended(Context @@ [switches |-> 0])
    /\ Resume([other EXCEPT !.lr = [@ EXCEPT !.lineBuffer = lr.lineBuffer]])

\* the scheduler takes the processor from the running call and gives it to the
\* other one, which has not ended; neither call's context is touched
Switch ==
    /\ other.pc \notin {"none", "done", "panic"}
    /\ other' = Suspended(Context @@ [switches |-> 0])
    /\ Resume(other)

NextConcurrent == CallReadLine \/ ReadLineStep \/ LoadStep \/ DecodeStep \/ Switch

AlphabetConcurrent == {chLowerA, chEquals, chLF}

MaxLenConcurrent == 2

\* two calls on independent inputs, the first one running
InitConcurrent ==
    \E x \in SeqsUpTo(AlphabetConcurrent, MaxLenConcurrent),
       y \in SeqsUpTo({chLowerA, chLF}, MaxLenConcurrent) :
        /\ CallStarts(x, -1, SmallBuffer, SmallLineBuffer)
        /\ other = InitialContext(y, -1, SmallBuffer, SmallLineBuffer) @@ [switches |-> 0]

SpecConcurrent == InitConcurrent /\ [][NextConcurrent]_vars

\* C12: two calls of Load on independent inputs share no mutable state: under
\* every interleaving of their steps each call returns what it returns when
\* it runs alone.
C12_Independent ==
    /\ pc = "done" => result = LoadAlone
    /\ pc = "panic" => LoadAlone = Panicked

\* both calls have returned, each after having been interrupted by the other,
\* with different results
C12_Witness ==
    /\ pc = "done"
    /\ other.pc = "done"
    /\ other.switches = MaxSwitches
    /\ src = <<chEquals, chLowerA>>
    /\ result.props = MapAssign(EmptyMap, <<>>, <<chLowerA>>)
    /\ other.src = <<chLowerA, chLowerA>>
    /\ other.result.props = MapAssign(EmptyMap, <<chLowerA, chLowerA>>, <<>>)

(***************************************************************************)
(* A client that goes on calling readLine                                  *)
(***************************************************************************)
\* the caller drops what readLine returned, line or error, and calls again
CallAgain ==
    /\ pc = "returned"
    /\ pc' = "load"
    /\ UNCHANGED <<src, srcErrAt, srcPos, lr, rl, s, e, dec, props, result, lines,
                   origin, linesFrom, inserted, other>>

NextReader == CallReadLine \/ ReadLineStep \/ CallAgain

SpecReader == Init /\ [][NextReader]_vars

\* C13: exhaustion is permanent: once a call of readLine has returned
\* io.EOF, every later call on the same reader returns io.EOF and an empty
\* line, never another logical line.  (e keeps what the last call returned.)
C13_ExhaustionPermanent ==
    [][(e = EOF /\ pc' = "returned") => (e' = EOF /\ s' = <<>>)]_vars

(***************************************************************************)
(* The capacity of the raw buffer (checked under Spec)                     *)
(***************************************************************************)
\* the lines repeated calls of readLine return up to the first error or
\* io.EOF
RECURSIVE ReadAll(_, _)
ReadAll(r, pos) ==
    LET c == readLine(r, pos) IN
    IF c.e # nil THEN <<>> ELSE <<c.line>> \o ReadAll(c.lr, c.pos)

\* the logical lines of the source as a reader with a raw buffer of bufLen
\* bytes returns them
LinesWith(bufLen) == ReadAll(newLineReader(bufLen, SmallLineBuffer), 0)

\* C14: refilling the raw buffer loses and re-interprets nothing: the
\* logical lines readLine returns for an input, and the outcome of Load, are
\* the same for every capacity of the raw buffer, wherever line terminators
\* and comment lines fall with respect to the refills.
C14_BufferIndependent ==
    /\ pc = "done" =>
           \A n \in BufferSizes :
               /\ lines = LinesWith(n)
               /\ result = Load(n, SmallLineBuffer)
    /\ pc = "panic" =>
           \A n \in BufferSizes : Load(n, SmallLineBuffer) = Panicked

(***************************************************************************)
(* Totality (checked under Spec)                                           *)
(***************************************************************************)
\* C15: Load is total: decodeString never reads an index at or beyond the
\* end of a span, also when the span ends in a lone backslash or in an
\* incomplete \u escape, and never asks for a buffer of an invalid size, so
\* no call ends in a run-time panic.
C15_NoPanic ==
    /\ pc # "panic"
    /\ (pc = "decodeString" /\ dec.i < Len(dec.in)) =>
           DecodeIteration(dec.in, dec.i, dec.out).err # Panic

(***************************************************************************)
(* The end of an input without a line terminator (checked under Spec)      *)
(***************************************************************************)
\* the last byte of the input belongs to a logical line
EndsInLine(input) ==
    /\ input # <<>>
    /\ ~IsEOL(input[Len(input)])
    /\ RefLineFrom(input) # <<>>
    /\ LET last == RefLineFrom(input)[Len(RefLineFrom(input))]
       IN last[Len(last)] = Len(input)

\* the last byte of the input belongs to a comment line
EndsInComment(input) ==
    /\ input # <<>>
    /\ ~IsEOL(input[Len(input)])
    /\ Len(input) \in RefCommentPlaces(input)

\* C16: if the input ends without a line terminator while a line that is no
\* comment has accumulated bytes, readLine returns exactly these bytes as the
\* last logical line and Load inserts its key and value before the end of
\* input is signalled; if the input ends inside a comment line, readLine
\* signals the end of input and returns no line for it.
C16_UnterminatedEnd ==
    /\ (pc \in {"done", "panic"} /\ EndsInLine(src)) =>
           LET last == RefLines(src)[Len(RefLines(src))] IN
           /\ pc = "done"
           /\ result.err = nil
           /\ lines # <<>>
           /\ lines[Len(lines)] = last
           /\ inserted # <<>>
           /\ inserted[Len(inserted)] =
                  <<decodeString(Slice(last, 0, Split(last).keyLen)).out,
                    decodeString(Slice(last, Split(last).valueStart, Len(last))).out>>
    /\ (pc \in {"done", "panic"} /\ EndsInComment(src)) =>
           LET pls == PhysicalLines(src) IN
           /\ pc = "done"
           /\ e = EOF
           /\ \A i \in 1..Len(lines) :
                  /\ lines[i] # <<>>
                  /\ \A k \in 1..Len(linesFrom[i]) : linesFrom[i][k] < pls[Len(pls)].lo

(***************************************************************************)
(* The split of a logical line                                             *)
(***************************************************************************)
AlphabetSplit == {chLowerA, chEquals, chColon, chSpace, chTab, chBackslash}

InitSplit ==
    \E input \in SeqsUpTo(AlphabetSplit, MaxLenKeys) :
        LoadStarts(input, -1, MaxLenKeys + 2, SmallLineBuffer)

SpecSplit == InitSplit /\ [][Next]_vars

\* the first place from p on that holds no space, tab or form feed, or the
\* place after the line
FirstNonWhite(line, p) ==
    CHOOSE q \in p..(Len(line) + 1) :
        /\ q = Len(line) + 1 \/ ~IsWhiteSpace(line[q])
        /\ \A j \in p..(q - 1) : IsWhiteSpace(line[j])

\* where the value starts by the format's rule, as a Go index: after the
\* key, whitespace, at most one = or :, and whitespace again
RefValueStart(line) ==
    LET k == RefKeyLen(line)
        w == FirstNonWhite(line, k + 1)
    IN IF k >= Len(line) THEN Len(line)
       ELSE IF w <= Len(line) /\ IsSeparator(line[w])
       THEN FirstNonWhite(line, w + 1) - 1
       ELSE w - 1

\* C17: for every logical line Load's split is the reference split: the key
\* span ends at the first unescaped =, :, space, tab or form feed; then
\* whitespace is skipped, at most one = or : is taken as the separator,
\* whitespace is skipped again and the value span is the rest of the line; a
\* line without unescaped separator or whitespace is all key.
C17_Split ==
    /\ (pc = "decodeString" /\ dec.part = "key") =>
           /\ dec.in = SubSeq(s, 1, RefKeyLen(s))
           /\ dec.valueSpan = SubSeq(s, RefValueStart(s) + 1, Len(s))
    /\ \A i \in 1..Len(lines) :
           Split(lines[i]) = [keyLen |-> RefKeyLen(lines[i]),
                              valueStart |-> RefValueStart(lines[i])]

\* the line  a =:a  has been split into the key a and the value :a
C17_Witness ==
    /\ pc = "decodeString"
    /\ s = <<chLowerA, chSpace, chEquals, chColon, chLowerA>>
    /\ dec.part = "value"
    /\ dec.key = <<chLowerA>>
    /\ dec.in = <<chColon, chLowerA>>

(***************************************************************************)
(* decodeString on strings without \u                                      *)
(***************************************************************************)
AlphabetDecode == {chBackslash, chLowerT, chLowerR, chLowerN, chLowerF, chLowerA}

\* one-line inputs without separator, so that the line is the key span
InitDecode ==
    \E input \in SeqsUpTo(AlphabetDecode, MaxLenKeys) :
        LoadStarts(input, -1, MaxLenKeys + 2, SmallLineBuffer)

SpecDecode == InitDecode /\ [][Next]_vars

\* the reference unescaper from place p on: \t \r \n \f stand for tab,
\* carriage return, newline, form feed, a backslash before any other byte
\* for that byte, and a backslash that ends the string for nothing
RECURSIVE RefUnescape(_, _)
RefUnescape(span, p) ==
    IF p > Len(span) THEN <<>>
    ELSE IF span[p] # chBackslash THEN <<span[p]>> \o RefUnescape(span, p + 1)
    ELSE IF p = Len(span) THEN <<>>
    ELSE LET c == span[p + 1]
             x == CASE c = chLowerT -> chTab
                    [] c = chLowerR -> chCR
                    [] c = chLowerN -> chLF
                    [] c = chLowerF -> chFF
                    [] OTHER -> c
         IN <<x>> \o RefUnescape(span, p + 2)

\* C18: on every string without \u decodeString returns what the reference
\* unescaper gives, and never more bytes than the string has.
C18_Unescape ==
    /\ pc # "panic"
    /\ (pc = "decodeString" /\ dec.i >= Len(dec.in)) =>
           /\ dec.out = RefUnescape(dec.in, 1)
           /\ Len(dec.out) <= Len(dec.in)

(***************************************************************************)
(* An input with and without one of its comment lines                      *)
(***************************************************************************)
\* the longest comment text and the longest text after the comment line
MaxLenDeleted == 1

MaxLenAfter == 4

\* what stands before the comment line: nothing or a property line
BeforeComment == {<<>>, <<chLowerA, chLF>>}

\* what stands after the comment line: text that begins with a property line
AfterComment ==
    {p \in SeqsUpTo({chLowerA, chBackslash, chLF}, MaxLenAfter) :
        p # <<>> /\ p[1] # chLF}

\* two calls: the running one reads an input with a complete comment line, the
\* other one the same input without that line
InitDeletion ==
    \E pre \in BeforeComment, post \in AfterComment,
       body \in SeqsUpTo({chLowerA, chBackslash}, MaxLenDeleted) :
        LET comment == <<chHash>> \o body \o <<chLF>>
            with == pre \o comment \o post
        IN /\ CallStarts(with, -1, Len(with) + 1, SmallLineBuffer)
           /\ other = InitialContext(pre \o post, -1, Len(with) + 1, SmallLineBuffer)
                          @@ [switches |-> 0]

SpecDeletion == InitDeletion /\ [][NextConcurrent]_vars

\* C19: the content of a comment line has no effect on the lines after it:
\* comment bytes do not enter the line buffer, the preceding-backslash flag
\* is clear when the next physical line starts, and the input without the
\* comment line gives the same logical lines, also when the comment ends in
\* a backslash.
C19_CommentDeletion ==
    /\ (pc = "readLine" /\ rl.isCommentLine) => rl.nextCharIndex = 0
    /\ (pc = "readLine" /\ rl.isNewLine) => ~rl.precedingBackslash
    /\ (pc \in {"done", "panic"} /\ other.pc \in {"done", "panic"}) =>
           lines = other.lines

(***************************************************************************)
(* Termination                                                             *)
(***************************************************************************)
\* finite inputs and a source that reports the end of input after them
InitTermination ==
    \E input \in SeqsUpTo(AlphabetComments, MaxLen - 1), bufLen \in BufferSizes :
        LoadStarts(input, -1, bufLen, SmallLineBuffer)

\* the call is not held up: a step that can be taken is taken in the end
SpecTermination == InitTermination /\ [][Next]_vars /\ WF_vars(Next)

\* an iteration of readLine's loop takes a byte of the raw buffer, or refills
\* it with at least one byte, or ends the call
IterationAdvances ==
    pc = "readLine" =>
        \/ pc' # "readLine"
        \/ srcPos' > srcPos
        \/ srcPos' = srcPos /\ lr'.offset = lr.offset + 1

\* C20: for every finite input whose source reports the end of input in the
\* end, every iteration of readLine's loop advances, every call of readLine
\* returns and Load returns.
C20_Terminates ==
    /\ [][IterationAdvances]_vars
    /\ [](pc = "readLine" => <>(pc \in {"returned", "done"}))
    /\ <>(pc = "done")

(***************************************************************************)
(* Continuation lines terminated by CR LF                                  *)
(***************************************************************************)
AlphabetCRLF == {chLowerA, chBackslash, chCR, chLF, chSpace}

MaxLenCRLF == 5

\* the input with the one byte c in place of every CR LF
RECURSIVE CRLFTo(_, _)
CRLFTo(input, c) ==
    IF input = <<>> THEN <<>>
    ELSE IF Len(input) >= 2 /\ input[1] = chCR /\ input[2] = chLF
    THEN <<c>> \o CRLFTo(SubSeq(input, 3, Len(input)), c)
    ELSE <<input[1]>> \o CRLFTo(Tail(input), c)

\* two calls: the running one reads an input in which a backslash stands
\* before CR LF, the other one the same input with LF, or with CR, for every
\* CR LF
InitCRLF ==
    \E input \in SeqsUpTo(AlphabetCRLF, MaxLenCRLF),
       bufLen \in {SmallBuffer + 1, MaxLenCRLF + 1}, c \in {chLF, chCR} :
        /\ \E p \in 1..(Len(input) - 2) :
               input[p] = chBackslash /\ input[p + 1] = chCR /\ input[p + 2] = chLF
        /\ CallStarts(input, -1, bufLen, SmallLineBuffer)
        /\ other = InitialContext(CRLFTo(input, c), -1, bufLen, SmallLineBuffer)
                       @@ [switches |-> 0]

SpecCRLF == InitCRLF /\ [][NextConcurrent]_vars

\* C21: a continuation whose physical line ends in CR LF is joined exactly
\* like one that ends in LF or in CR alone: the LF right after the CR is
\* skipped and does not end the logical line, the next line's leading
\* whitespace is dropped, and only that LF is skipped, so the logical lines
\* are those of the input with LF, or CR, in place of CR LF.
C21_CRLFContinuation ==
    /\ (pc = "readLine" /\ rl.skipLF) =>
           /\ rl.char = chCR
           /\ rl.skipWhiteSpace
           /\ rl.appendedLineBegin
    /\ (pc \in {"done", "panic"} /\ other.pc \in {"done", "panic"}) =>
           lines = other.lines

(***************************************************************************)
(* The line buffer and its write cursor                                    *)
(***************************************************************************)
\* lines, continuations and comments; the inputs are long enough for a line
\* after another one to outgrow the initial line buffer
AlphabetLineBuffer == {chLowerA, chBackslash, chLF, chHash}
MaxLenLineBuffer == 7

InitLineBuffer ==
    \E input \in SeqsUpTo(AlphabetLineBuffer, MaxLenLineBuffer),
       bufLen \in {SmallBuffer + 1, MaxLenLineBuffer + 1} :
        LoadStarts(input, -1, bufLen, SmallLineBuffer)

SpecLineBuffer == InitLineBuffer /\ [][Next]_vars

\* inside readLine the cursor is inside the line buffer, and every line
\* returned so far is made, byte by byte, of the bytes of src at places that
\* go up along the line and lie after every place of the line returned
\* before it
CursorInBuffer ==
    /\ pc = "readLine" =>
           /\ 0 <= rl.nextCharIndex
           /\ rl.nextCharIndex < Len(lr.lineBuffer)
           /\ Len(origin) = rl.nextCharIndex
    /\ Len(linesFrom) = Len(lines)
    /\ \A k \in 1..Len(lines) :
           /\ Len(linesFrom[k]) = Len(lines[k])
           /\ \A i \in 1..Len(lines[k]) :
                  /\ lines[k][i] = src[linesFrom[k][i]]
                  /\ i > 1 => linesFrom[k][i - 1] < linesFrom[k][i]
                  /\ \A j \in 1..(k - 1) : \A h \in 1..Len(lines[j]) :
                         linesFrom[j][h] < linesFrom[k][i]

\* the step took the continuation branch of lines 323-331
ContinuationTaken ==
    /\ pc = "readLine"
    /\ rl'.nextCharIndex = rl.nextCharIndex - 1
    /\ rl'.appendedLineBegin

\* what one step does to the cursor and to the line buffer
CursorStep ==
    /\ (pc = "load" /\ pc' = "readLine") => rl'.nextCharIndex = 0
    /\ \A i \in 1..Len(lr.lineBuffer) :
           /\ i <= Len(lr'.lineBuffer)
           /\ lr'.lineBuffer[i] # lr.lineBuffer[i] =>
                  /\ pc = "readLine"
                  /\ i = rl.nextCharIndex + 1
                  /\ rl'.nextCharIndex = i
                  /\ lr'.lineBuffer[i] = rl'.char
    /\ Len(lr'.lineBuffer) # Len(lr.lineBuffer) =>
           /\ rl'.nextCharIndex = Len(lr.lineBuffer)
           /\ Len(lr'.lineBuffer) = 2 * Len(lr.lineBuffer)
    /\ ContinuationTaken =>
           /\ rl.nextCharIndex >= 1
           /\ lr.lineBuffer[rl.nextCharIndex] = chBackslash
           /\ lr'.lineBuffer = lr.lineBuffer
    /\ (pc = "readLine" /\ pc' = "returned" /\ e' = nil) =>
           /\ s' = Slice(lr'.lineBuffer, 0, rl'.nextCharIndex)
           /\ s' = [i \in 1..Len(origin') |-> src[origin'[i]]]

\* C22: in every state of readLine the write cursor is inside the line
\* buffer, 0 <= nextCharIndex < len(lineBuffer); a full buffer is replaced by
\* one of twice the length with the same bytes at the same places; the
\* continuation branch decrements a cursor that is at least 1 and the byte it
\* removes is a backslash; the cursor starts at 0 in every readLine call, so
\* a returned line holds only bytes read for it, none of an earlier line, and
\* a line longer than the initial line buffer is returned whole.
C22_LineBuffer == []CursorInBuffer /\ [][CursorStep]_vars

\* a first line has been returned, and then a line that was joined over a
\* continuation and is longer than the initial line buffer, which has grown
C22_Witness ==
    /\ pc = "done"
    /\ src = <<chLowerA, chLF, chLowerA, chBackslash, chLF, chLowerA, chLowerA>>
    /\ lines = <<<<chLowerA>>, <<chLowerA, chLowerA, chLowerA>>>>
    /\ linesFrom = <<<<1>>, <<3, 6, 7>>>>
    /\ Len(lines[2]) > SmallLineBuffer
    /\ Len(lr.lineBuffer) = 2 * SmallLineBuffer
====
